---- MODULE Spec2Model ----
(***************************************************************************)
(* A model of driver.py: the case segmenter (test_case_iter) reading from  *)
(* its three line sources, the pipeline executor (Main.execute), the       *)
(* serial and worker-pool execution strategies, the result printer and the *)
(* fixture test harness (DriverTestCase._run).                             *)
(*                                                                         *)
(* A line of text is a sequence of one-character strings.  " " and NL are  *)
(* the whitespace characters.  The text a run reads is a sequence of line  *)
(* bodies (no terminators); each source turns it into the line sequence    *)
(* test_case_iter iterates.                                                *)
(***************************************************************************)
EXTENDS Integers, Sequences, FiniteSets, TLC

\* ---------------------------------------------------------------- bounds
\* data lines that follow the count line
MaxLines == 3
\* largest declared case count (the smallest is -1, "unlimited")
MaxExpected == 2
\* largest lines_per_case of a driver
MaxLinesPerCase == 2
\* largest --threads value and largest cpu_count()
MaxThreads == 2

\* ------------------------------------------------------------------ text
NL == "\n"
Whitespace == {" ", NL}

\* The line bodies the inputs are built from: an empty line, a data line
\* with leading whitespace, one with trailing whitespace, a data line the
\* pipeline's solve rejects, and a line of whitespace only.
Bodies == {<<>>, <<" ", "a">>, <<"c", " ">>, <<"b">>, <<" ">>}

Digits == <<"0", "1", "2", "3", "4", "5", "6", "7", "8", "9">>

\* The count line that declares k cases, as a user writes it.
CountLine(k) == IF k < 0 THEN <<"-", Digits[1 - k]>> ELSE <<Digits[k + 1]>>

RECURSIVE LStrip(_)
LStrip(s) == IF s # <<>> /\ Head(s) \in Whitespace THEN LStrip(Tail(s)) ELSE s

RECURSIVE RStrip(_)
RStrip(s) ==
    IF s # <<>> /\ s[Len(s)] \in Whitespace
    THEN RStrip(SubSeq(s, 1, Len(s) - 1))
    ELSE s

\* Whitespace removed at the end only.
StripTrailingOnly(s) == RStrip(s)

\* str.strip(): whitespace removed at both ends.
Strip(s) == RStrip(LStrip(s))

DigitVal(c) == (CHOOSE i \in 1..10 : Digits[i] = c) - 1

\* int(): surrounding whitespace ignored, an optional sign, one digit.
IntOf(s) ==
    LET t == Strip(s)
    IN  IF Head(t) = "-" THEN 0 - DigitVal(t[2]) ELSE DigitVal(t[1])

\* ------------------------------------------------------------- variables
VARIABLES
    mode,            \* "run": Main.run executes cases; "test": a fixture runs
    source,          \* "interactive" | "file" | "fixture"
    threads,         \* ns.threads
    argTest,         \* --test is on the command line
    argProfile,      \* --profile is on the command line
    argFail,         \* why the arguments were refused, "none" if they were not
    slots,           \* the slots of the TestData instance that are assigned
    lines_per_case,  \* Main.lines_per_case
    text,            \* the line bodies of the input; text[1] is the count line
    gen,             \* test_case_iter: "unstarted" | "running" | "ended" | "raised"
    pos,             \* lines test_case_iter has taken from its sequence
    expected,        \* test_case_iter's expected
    ctr,             \* test_case_iter's ctr
    nxt,             \* test_case_iter's next (<<>> for None)
    yielded,         \* the cases test_case_iter has yielded, in order
    genFail,         \* the failure test_case_iter raised, "none" if none
    pc,              \* the control point of Main.run / DriverTestCase._run
    job,             \* the job execute_serially is executing
    jobs,            \* the list pool.map builds from the enumerated cases
    tasks,           \* the jobs submitted to the pool
    results,         \* the result list being built
    taken,           \* number of tasks workers have taken from the queue
    workers,         \* worker -> the task it runs, 0 when idle
    completed,       \* the tasks whose execution has completed, in that order
    mapError,        \* the failure pool.map will raise, "none" if none
    pending,         \* what leaves the try block: "return" or a failure
    pool,            \* "none" | "open" | "closed" | "joined"
    poolSize,        \* workers of the pool
    raised,          \* the failure that reached the caller, "none" if none
    parsedNums,      \* case numbers parse_input was called with
    solvedNums,      \* case numbers solve was called with
    calls,           \* the calls of parse_input and solve, in order
    outOpen,         \* the output sink has been opened
    out,             \* the lines written to the output sink
    fixture,         \* the TestData of the running test
    driverHasExecuteAll, \* the driver object has an execute_all attribute
    execRaised,      \* the failure raised by running the cases in a test
    verdict          \* the test's outcome: "none" | "pass" | "fail" | "error"

genVars == <<gen, pos, expected, ctr, nxt, yielded, genFail>>
cfgVars == <<mode, source, threads, argTest, argProfile, lines_per_case,
             text, fixture, slots, driverHasExecuteAll>>
poolVars == <<tasks, taken, workers, completed, mapError, pool, poolSize>>
execVars == <<parsedNums, solvedNums, calls>>
outVars == <<outOpen, out>>
testVars == <<execRaised, verdict>>
argVars == <<argFail>>
vars == <<mode, source, threads, argTest, argProfile, argFail, slots,
          lines_per_case, text, gen, pos, expected,
          ctr, nxt, yielded, genFail, pc, job, jobs, tasks, results, taken,
          workers, completed, mapError, pending, pool, poolSize, raised,
          parsedNums, solvedNums, calls, outOpen, out, fixture,
          driverHasExecuteAll, execRaised, verdict>>

\* --------------------------------------------------------- line sources
RECURSIVE FirstEmpty(_, _)
\* Index of the first empty line of s at or after i, 0 if there is none.
FirstEmpty(s, i) ==
    IF i > Len(s) THEN 0
    ELSE IF s[i] = <<>> THEN i
    ELSE FirstEmpty(s, i + 1)

\* raw_input_iter: the lines typed before the first empty one.
raw_input_iter(t) ==
    LET e == FirstEmpty(t, 1)
    IN  IF e = 0 THEN t ELSE SubSeq(t, 1, e - 1)

\* raw_input() at the end of the typed text, no empty line having ended
\* the iterator: EOFError.
RawInputEOF(t) == FirstEmpty(t, 1) = 0

\* fileinput.input(infile, mode='rU'): every line keeps its terminator.
FileLines(t) == [i \in 1..Len(t) |-> t[i] \o <<NL>>]

\* TestData.iter_cases: input_str.splitlines(), terminators dropped.
FixtureLines(t) == t

\* The sequence test_case_iter iterates.
seq ==
    CASE source = "interactive" -> raw_input_iter(text)
      [] source = "file" -> FileLines(text)
      [] OTHER -> FixtureLines(text)

\* A line that holds nothing but its terminator.
IsBlank(line) == line = <<>> \/ line = <<NL>>

\* -------------------------------------------------------------- pipeline
\* The lines of a case: one stripped line, or the list of lines_per_case
\* stripped lines.
CaseLines(c) == IF lines_per_case = 1 THEN <<c>> ELSE c

\* parse_input of the concrete problem: rejects a case with an empty line.
ParseFails(case_num, input_str) ==
    \E i \in 1..Len(CaseLines(input_str)) : CaseLines(input_str)[i] = <<>>

parse_input(case_num, input_str) == input_str

\* solve of the concrete problem: rejects a case with a line "b".
SolveFails(case_num, case) ==
    \E i \in 1..Len(CaseLines(case)) : CaseLines(case)[i] = <<"b">>

solve(case_num, case) == <<case_num, case>>

\* Main.execute: the failure kind, or "ok" and the result.
execute(j) ==
    IF ParseFails(j[1], j[2]) THEN [kind |-> "ValueError", val |-> <<>>]
    ELSE IF SolveFails(j[1], parse_input(j[1], j[2]))
    THEN [kind |-> "Exception", val |-> <<>>]
    ELSE [kind |-> "ok", val |-> solve(j[1], parse_input(j[1], j[2]))]

\* execute(j) calling solve on the raw input, parse_input left out.
ExecuteCallsNoParse(j) == <<<<"solve", j[1], j[2]>>>>

\* The calls execute(j) makes, in order: parse_input with the case number
\* and the raw case, then, unless that failed, solve with the same number
\* and what parse_input returned.
ExecuteCalls(j) ==
    IF ParseFails(j[1], j[2])
    THEN <<<<"parse", j[1], j[2]>>>>
    ELSE <<<<"parse", j[1], j[2]>>,
           <<"solve", j[1], parse_input(j[1], j[2])>>>>

\* The case numbers parse_input and solve are called with by execute(j).
ParsedBy(j) == {j[1]}
SolvedBy(j) == IF ParseFails(j[1], j[2]) THEN {} ELSE {j[1]}

\* ------------------------------------------------------------- strategy
\* execute_all, which _run calls on the driver and Main does not define:
\* on a driver that supplies it, the serial strategy.
ExecuteAllStrategy == "serial"

\* The executor that consumes the enumerated cases: Main.run picks
\* execute_threaded when ns.threads > 1 and execute_serially otherwise; the
\* test harness calls execute_all.
Strategy ==
    IF mode = "test" THEN ExecuteAllStrategy
    ELSE IF threads > 1 THEN "threaded"
    ELSE "serial"

\* A failure swallowed by execute_serially, which goes on to the next job.
SerialRaiseSwallowed(k) ==
    /\ pc' = "pull"
    /\ UNCHANGED <<raised, pending, execRaised>>

\* What leaves execute_serially when a failure of kind k propagates out of
\* it: Main.run lets it reach the caller, _run's try block receives it.
SerialRaise(k) ==
    IF mode = "test"
    THEN /\ execRaised' = k
         /\ pending' = k
         /\ pc' = "except"
         /\ UNCHANGED raised
    ELSE /\ raised' = k
         /\ pc' = "raised"
         /\ UNCHANGED <<execRaised, pending>>

\* The consumer receiving case c, the pool being handed each job as it is
\* enumerated instead of the complete list.
OnYieldLazyDispatch(c) ==
    LET j == <<Len(yielded) + 1, c>>
    IN  /\ IF Strategy = "serial"
           THEN job' = j /\ pc' = "exec" /\ UNCHANGED <<jobs, tasks, results>>
           ELSE /\ jobs' = Append(jobs, j)
                /\ tasks' = Append(tasks, j)
                /\ results' = Append(results, <<>>)
                /\ pc' = "pull"
                /\ UNCHANGED job
        /\ UNCHANGED <<pending, raised, execRaised>>

\* The consumer receiving case c, the cases enumerated from 0.
OnYieldFromZero(c) ==
    LET j == <<Len(yielded), c>>
    IN  /\ IF Strategy = "serial"
           THEN job' = j /\ pc' = "exec" /\ UNCHANGED jobs
           ELSE jobs' = Append(jobs, j) /\ pc' = "pull" /\ UNCHANGED job
        /\ UNCHANGED <<tasks, results, pending, raised, execRaised>>

\* The consumer of the generator receives case c from it.
OnYield(c) ==
    LET j == <<Len(yielded) + 1, c>>
    IN  /\ IF Strategy = "serial"
           THEN job' = j /\ pc' = "exec" /\ UNCHANGED jobs
           ELSE jobs' = Append(jobs, j) /\ pc' = "pull" /\ UNCHANGED job
        /\ UNCHANGED <<tasks, results, pending, raised, execRaised>>

\* The consumer finds the generator exhausted.
OnStop ==
    /\ IF Strategy = "serial"
       THEN pc' = "returned" /\ UNCHANGED <<tasks, results>>
       ELSE /\ pc' = "map"
            /\ tasks' = jobs
            /\ results' = [k \in 1..Len(jobs) |-> <<>>]
    /\ UNCHANGED <<job, jobs, pending, raised, execRaised>>

\* A failure of kind k leaves the generator while the consumer pulls.
OnRaise(k) ==
    /\ IF Strategy = "serial"
       THEN SerialRaise(k)
       ELSE pending' = k /\ pc' = "finally" /\ UNCHANGED <<raised, execRaised>>
    /\ UNCHANGED <<job, jobs, tasks, results>>

\* ------------------------------------------------------- test_case_iter
\* Complete cases assembled so far (Python 2 integer division).
CasesSoFar == ctr \div lines_per_case

\* The assertion guarding a non-empty line, off by one.
TooManyOkOffByOne == expected < 0 \/ CasesSoFar <= expected

\* The assertion guarding a non-empty line.
TooManyOk == expected < 0 \/ CasesSoFar < expected

\* The assertion guarding an empty line.
TooFewOk == expected < 0 \/ CasesSoFar = expected

\* The first pull: expected = int(seq.next()); ctr = 0; next = None.
GenStart ==
    /\ pc = "pull"
    /\ gen = "unstarted"
    /\ gen' = "running"
    /\ pos' = 1
    /\ expected' = IntOf(seq[1])
    /\ ctr' = 0
    /\ nxt' = <<>>
    /\ UNCHANGED <<yielded, genFail, pc, job, jobs, results, pending, raised>>
    /\ UNCHANGED <<cfgVars, argVars, poolVars, execVars, outVars, testVars>>

\* One iteration of "for line in seq".
GenLine ==
    /\ pc = "pull"
    /\ gen = "running"
    /\ pos < Len(seq)
    /\ pos' = pos + 1
    /\ LET line == seq[pos + 1]
           stripped == Strip(line)
           group == Append(nxt, stripped)
       IN  IF line # <<>>
           THEN IF ~TooManyOk
                THEN /\ gen' = "raised"
                     /\ genFail' = "Too many inputs"
                     /\ OnRaise("AssertionError")
                     /\ UNCHANGED <<ctr, nxt, yielded>>
                ELSE /\ ctr' = ctr + 1
                     /\ UNCHANGED <<gen, genFail>>
                     /\ IF lines_per_case = 1
                        THEN /\ yielded' = Append(yielded, stripped)
                             /\ OnYield(stripped)
                             /\ UNCHANGED nxt
                        ELSE IF (ctr + 1) % lines_per_case = 0
                        THEN /\ yielded' = Append(yielded, group)
                             /\ OnYield(group)
                             /\ nxt' = <<>>
                        ELSE /\ nxt' = group
                             /\ UNCHANGED <<yielded, pc, job, jobs, tasks,
                                            results, pending, raised,
                                            execRaised>>
           ELSE IF ~TooFewOk
                THEN /\ gen' = "raised"
                     /\ genFail' = "Too few inputs"
                     /\ OnRaise("AssertionError")
                     /\ UNCHANGED <<ctr, nxt, yielded>>
                ELSE /\ gen' = "ended"
                     /\ OnStop
                     /\ UNCHANGED <<ctr, nxt, yielded, genFail>>
    /\ UNCHANGED <<expected, verdict>>
    /\ UNCHANGED <<cfgVars, argVars, taken, workers, completed, mapError, pool,
                   poolSize, execVars, outVars>>

\* "for line in seq" finds seq exhausted: the loop ends, and with it the
\* generator.  At the interactive prompt the input ending with no empty
\* line makes raw_input() raise EOFError instead.
GenExhausted ==
    /\ pc = "pull"
    /\ gen = "running"
    /\ pos = Len(seq)
    /\ IF source = "interactive" /\ RawInputEOF(text)
       THEN /\ gen' = "raised"
            /\ genFail' = "EOFError"
            /\ OnRaise("EOFError")
       ELSE /\ gen' = "ended"
            /\ OnStop
            /\ UNCHANGED genFail
    /\ UNCHANGED <<pos, expected, ctr, nxt, yielded, verdict>>
    /\ UNCHANGED <<cfgVars, argVars, taken, workers, completed, mapError, pool,
                   poolSize, execVars, outVars>>

\* ------------------------------------------------------------- Main.run
Min(a, b) == IF a < b THEN a ELSE b

\* The options of the mutually exclusive group that the command line
\* sets to something other than their default.
MutexSeen ==
    {o \in {"test", "profile", "threads"} :
        \/ o = "test" /\ argTest
        \/ o = "profile" /\ argProfile
        \/ o = "threads" /\ threads # 1}

\* The thread count accepted at the interactive prompt, 0 let through.
ThreadsOkAllowsZero == threads <= 1

\* assert ns.threads == 1
ThreadsOk == threads = 1

\* assert ns.profile is False
ProfileOk == ~argProfile

\* parse_arguments: argparse refuses two options of the mutually exclusive
\* group (it exits), then the two assertions guard the interactive prompt.
ParseArguments ==
    /\ pc = "args"
    /\ mode = "run"
    /\ IF Cardinality(MutexSeen) > 1
       THEN /\ argFail' = "not allowed with argument"
            /\ raised' = "SystemExit"
            /\ pc' = "raised"
       ELSE IF ~argTest /\ source = "interactive" /\ ~ThreadsOk
       THEN /\ argFail' = "Multithreading not allowed with interactive input"
            /\ raised' = "AssertionError"
            /\ pc' = "raised"
       ELSE IF ~argTest /\ source = "interactive" /\ ~ProfileOk
       THEN /\ argFail' = "Profiling not allowed with interactive input"
            /\ raised' = "AssertionError"
            /\ pc' = "raised"
       ELSE /\ pc' = "start"
            /\ UNCHANGED <<argFail, raised>>
    /\ UNCHANGED <<job, jobs, results, pending>>
    /\ UNCHANGED <<cfgVars, genVars, poolVars, execVars, outVars, testVars>>

\* Main.run with ns.test set: run_tests hands the fixtures to unittest and
\* Main.run returns.
RunTests ==
    /\ pc = "start"
    /\ mode = "run"
    /\ argTest
    /\ pc' = "tests"
    /\ UNCHANGED <<job, jobs, results, pending, raised>>
    /\ UNCHANGED <<cfgVars, argVars, genVars, poolVars, execVars, outVars,
                   testVars>>

\* The names the statement handed to cProfile.run can resolve: cProfile
\* executes it in the namespace of the __main__ module, where the locals
\* of Main.run, self and cases, are not bound.
ProfileNames == {}

\* Main.run with ns.profile set: the generator is created (nothing is read
\* yet) and cProfile.run is handed the statement
\* 'self.execute_serially(enumerate(cases, 1))'.  The statement fails on
\* its first name, cProfile writes its statistics, and the failure leaves
\* Main.run.  Nothing follows cProfile.run in this branch.
RunProfile ==
    /\ pc = "start"
    /\ mode = "run"
    /\ ~argTest
    /\ argProfile
    /\ IF "self" \in ProfileNames
       THEN pc' = "pull" /\ UNCHANGED raised
       ELSE pc' = "raised" /\ raised' = "NameError"
    /\ UNCHANGED <<job, jobs, results, pending>>
    /\ UNCHANGED <<cfgVars, argVars, genVars, poolVars, execVars, outVars,
                   testVars>>

\* Main.run opening its output file before it calls the executor.
RunStartOpensOutfile ==
    /\ pc = "start"
    /\ mode = "run"
    /\ ~argTest
    /\ ~argProfile
    /\ pc' = IF Strategy = "threaded" THEN "pool" ELSE "pull"
    /\ outOpen' = TRUE
    /\ UNCHANGED <<job, jobs, results, pending, raised, out>>
    /\ UNCHANGED <<cfgVars, argVars, genVars, poolVars, execVars, testVars>>

\* Main.run with the arguments parsed: the generator is created (nothing
\* is read yet) and the executor chosen.
RunStart ==
    /\ pc = "start"
    /\ mode = "run"
    /\ ~argTest
    /\ ~argProfile
    /\ pc' = IF Strategy = "threaded" THEN "pool" ELSE "pull"
    /\ UNCHANGED <<job, jobs, results, pending, raised>>
    /\ UNCHANGED <<cfgVars, argVars, genVars, poolVars, execVars, outVars, testVars>>

\* execute_serially runs execute on the job the generator just yielded.
SerialExecute ==
    /\ pc = "exec"
    /\ parsedNums' = parsedNums \cup ParsedBy(job)
    /\ solvedNums' = solvedNums \cup SolvedBy(job)
    /\ calls' = calls \o ExecuteCalls(job)
    /\ LET o == execute(job)
       IN  IF o.kind = "ok"
           THEN /\ results' = Append(results, o.val)
                /\ pc' = "pull"
                /\ UNCHANGED <<raised, pending, execRaised>>
           ELSE /\ SerialRaise(o.kind)
                /\ UNCHANGED results
    /\ UNCHANGED <<job, jobs, verdict>>
    /\ UNCHANGED <<cfgVars, argVars, genVars, poolVars, outVars>>

\* execute_threaded up to the try: the pool is created with
\* min(self.threads, cpu_count()) workers.
CreatePool ==
    /\ pc = "pool"
    /\ \E cpus \in 1..MaxThreads : poolSize' = Min(threads, cpus)
    /\ pool' = "open"
    /\ pc' = "pull"
    /\ UNCHANGED <<tasks, taken, workers, completed, mapError>>
    /\ UNCHANGED <<job, jobs, results, pending, raised>>
    /\ UNCHANGED <<cfgVars, argVars, genVars, execVars, outVars, testVars>>

\* pool.map keeps results by the position of their job.
StoreResultByCompletion(res, i, val) ==
    LET free == CHOOSE k \in 1..Len(res) :
                    /\ res[k] = <<>>
                    /\ \A m \in 1..(k - 1) : res[m] # <<>>
    IN  [res EXCEPT ![free] = val]

StoreResult(res, i, val) == [res EXCEPT ![i] = val]

\* An idle worker takes the next task from the pool's queue.  (pool.map
\* cuts the jobs in chunks of ceil(N / (4 * workers)) jobs, which is 1 for
\* every N up to 4 * workers.)
WorkerTake(w) ==
    /\ pool \in {"open", "closed"}
    /\ w \in 1..poolSize
    /\ workers[w] = 0
    /\ taken < Len(tasks)
    /\ taken' = taken + 1
    /\ workers' = [workers EXCEPT ![w] = taken + 1]
    /\ UNCHANGED <<tasks, completed, mapError, pool, poolSize>>
    /\ UNCHANGED <<pc, job, jobs, results, pending, raised>>
    /\ UNCHANGED <<cfgVars, argVars, genVars, execVars, outVars, testVars>>

\* A worker completes execute on its task and hands the outcome back: a
\* result goes to its job's slot, the first failure handed back becomes
\* the failure pool.map raises.
WorkerFinish(w) ==
    /\ pool \in {"open", "closed"}
    /\ w \in 1..poolSize
    /\ workers[w] # 0
    /\ LET i == workers[w]
           o == execute(tasks[i])
       IN  /\ parsedNums' = parsedNums \cup ParsedBy(tasks[i])
           /\ solvedNums' = solvedNums \cup SolvedBy(tasks[i])
           /\ calls' = calls \o ExecuteCalls(tasks[i])
           /\ completed' = Append(completed, i)
           /\ IF o.kind = "ok"
              THEN /\ results' = IF mapError = "none"
                                  THEN StoreResult(results, i, o.val)
                                  ELSE results
                   /\ UNCHANGED mapError
              ELSE /\ mapError' = IF mapError = "none" THEN o.kind ELSE mapError
                   /\ UNCHANGED results
    /\ workers' = [workers EXCEPT ![w] = 0]
    /\ UNCHANGED <<tasks, taken, pool, poolSize>>
    /\ UNCHANGED <<pc, job, jobs, pending, raised>>
    /\ UNCHANGED <<cfgVars, argVars, genVars, outVars, testVars>>

\* pool.map returns: every task has handed back a result.
MapReturn ==
    /\ pc = "map"
    /\ mapError = "none"
    /\ Len(completed) = Len(tasks)
    /\ pending' = "return"
    /\ pc' = "finally"
    /\ UNCHANGED <<job, jobs, results, raised>>
    /\ UNCHANGED <<cfgVars, argVars, genVars, poolVars, execVars, outVars, testVars>>

\* pool.map raises the failure a task handed back.
MapRaise ==
    /\ pc = "map"
    /\ mapError # "none"
    /\ pending' = mapError
    /\ pc' = "finally"
    /\ UNCHANGED <<job, jobs, results, raised>>
    /\ UNCHANGED <<cfgVars, argVars, genVars, poolVars, execVars, outVars, testVars>>

\* finally: pool.close()
PoolClose ==
    /\ pc = "finally"
    /\ pool = "open"
    /\ pool' = "closed"
    /\ UNCHANGED <<tasks, taken, workers, completed, mapError, poolSize>>
    /\ UNCHANGED <<pc, job, jobs, results, pending, raised>>
    /\ UNCHANGED <<cfgVars, argVars, genVars, execVars, outVars, testVars>>

\* finally: pool.join() returns when the workers have drained the queue
\* and exited.
PoolJoin ==
    /\ pc = "finally"
    /\ pool = "closed"
    /\ taken = Len(tasks)
    /\ \A w \in 1..poolSize : workers[w] = 0
    /\ pool' = "joined"
    /\ UNCHANGED <<tasks, taken, workers, completed, mapError, poolSize>>
    /\ UNCHANGED <<pc, job, jobs, results, pending, raised>>
    /\ UNCHANGED <<cfgVars, argVars, genVars, execVars, outVars, testVars>>

\* The finally clause has run to its end: pool.close(), then pool.join().
FinallyDoneCloseOnly == pool \in {"closed", "joined"}

FinallyDone == pool = "joined"

\* execute_threaded ends: the finally clause is done, the pending return
\* or failure takes effect.
ThreadedExit ==
    /\ pc = "finally"
    /\ FinallyDone
    /\ IF pending = "return"
       THEN pc' = "returned" /\ UNCHANGED raised
       ELSE pc' = "raised" /\ raised' = pending
    /\ UNCHANGED <<job, jobs, results, pending>>
    /\ UNCHANGED <<cfgVars, argVars, genVars, poolVars, execVars, outVars, testVars>>

\* enumerate(cases, 1) over the cases yielded so far.
EnumeratedCases == [i \in 1..Len(yielded) |-> <<i, yielded[i]>>]

\* execute_serially as a function of its jobs, none of which fails.
execute_serially(js) == [i \in 1..Len(js) |-> execute(js[i]).val]

\* str(result)
Str(r) == <<"str", r>>

\* print_result: "Case #%i: %s\n" % (case_num, str(result))
print_result(case_num, result) == <<"Case #", case_num, ": ", Str(result), NL>>

\* Main.run opens the output sink once the executor has returned.
OpenOutfile ==
    /\ pc = "returned"
    /\ mode = "run"
    /\ outOpen' = TRUE
    /\ pc' = "print"
    /\ UNCHANGED <<out, job, jobs, results, pending, raised>>
    /\ UNCHANGED <<cfgVars, argVars, genVars, poolVars, execVars, testVars>>

\* One iteration of the printing loop.
PrintResult ==
    /\ pc = "print"
    /\ Len(out) < Len(results)
    /\ out' = Append(out, print_result(Len(out) + 1, results[Len(out) + 1]))
    /\ UNCHANGED <<outOpen, pc, job, jobs, results, pending, raised>>
    /\ UNCHANGED <<cfgVars, argVars, genVars, poolVars, execVars, testVars>>

\* The printing loop ends and with it Main.run.
RunDone ==
    /\ pc = "print"
    /\ Len(out) = Len(results)
    /\ pc' = "done"
    /\ UNCHANGED <<job, jobs, results, pending, raised>>
    /\ UNCHANGED <<cfgVars, argVars, genVars, poolVars, execVars, outVars, testVars>>

\* ------------------------------------------------------- DriverTestCase
\* isinstance(failure of kind k, e): every failure kind of the model is a
\* subclass of Exception.
IsInstance(k, e) == e = k \/ e = "Exception"

\* The text the harness collects from print_result in its StringIO.
Output(rs) == [i \in 1..Len(rs) |-> print_result(i, rs[i])]

\* The failure kinds fixtures declare.
ErrorClasses == {"AssertionError", "ValueError", "Exception"}

\* textwrap.dedent on the lines of a text: a line of blanks only becomes
\* empty, and the margin, the shortest run of leading blanks of the other
\* lines, is cut from each of them.
LeadingBlanks(s) ==
    CHOOSE n \in 0..Len(s) :
        /\ \A k \in 1..n : s[k] = " "
        /\ n = Len(s) \/ s[n + 1] # " "

Dedent(t) ==
    LET u == [i \in 1..Len(t) |->
                 IF \A k \in 1..Len(t[i]) : t[i][k] = " "
                 THEN <<>> ELSE t[i]]
        indents == {LeadingBlanks(u[i]) :
                       i \in {i \in 1..Len(u) : u[i] # <<>>}}
        margin == IF indents = {} THEN 0
                  ELSE CHOOSE m \in indents : \A n \in indents : m <= n
    IN  [i \in 1..Len(u) |->
            IF u[i] = <<>> THEN <<>>
            ELSE SubSeq(u[i], margin + 1, Len(u[i]))]

\* The names TestData.__init__ can resolve: its parameters and the dedent
\* it imports.
InitNames == {"self", "test_name", "num_cases", "input_str", "expected",
              "dedent"}

\* TestData.__init__(test_name, num_cases, input_str, expected): three
\* slots are assigned, then the branch on the type of expected reads
\* output_str when expected is a str and error_class otherwise.
ConstructTestData ==
    /\ pc = "construct"
    /\ mode = "test"
    /\ \E n \in 0..MaxExpected, e \in {"str"} \cup ErrorClasses :
          LET name == IF e = "str" THEN "output_str" ELSE "error_class"
              assigned == {"test_name", "num_cases", "input_str"}
          IN  /\ text' = Dedent(text)
              /\ IF name \in InitNames
                 THEN /\ slots' = assigned \cup {name}
                      /\ fixture' =
                            IF e = "str"
                            THEN [num_cases |-> n, error_class |-> "None",
                                  output_str |-> Dedent(text)]
                            ELSE [num_cases |-> n, error_class |-> e,
                                  output_str |-> <<>>]
                      /\ pc' = "start"
                      /\ UNCHANGED raised
                 ELSE /\ slots' = assigned
                      /\ fixture' = [fixture EXCEPT !.num_cases = n]
                      /\ pc' = "raised"
                      /\ raised' = "NameError"
    /\ UNCHANGED <<mode, source, threads, argTest, argProfile,
                   lines_per_case, driverHasExecuteAll>>
    /\ UNCHANGED <<job, jobs, results, pending>>
    /\ UNCHANGED <<argVars, genVars, poolVars, execVars, outVars, testVars>>

\* _run up to the call of self.driver.execute_all: the generator is
\* created, the branch chosen, and the attribute looked up on the driver.
\* Main defines no execute_all; on a driver that has none the lookup
\* raises AttributeError.
TestStart ==
    /\ pc = "start"
    /\ mode = "test"
    /\ IF driverHasExecuteAll
       THEN pc' = "pull" /\ UNCHANGED pending
       ELSE pc' = "except" /\ pending' = "AttributeError"
    /\ UNCHANGED <<job, jobs, results, raised>>
    /\ UNCHANGED <<cfgVars, argVars, genVars, poolVars, execVars, outVars, testVars>>

\* The outcome unittest records for a failure of kind k leaving _run.
Escapes(k) == IF k = "AssertionError" THEN "fail" ELSE "error"

\* The rest of _run, from the return of execute_all or from the failure
\* it raised.
TestVerdict ==
    /\ mode = "test"
    /\ pc \in {"returned", "except"}
    /\ pc' = "verdict"
    /\ verdict' =
          IF fixture.error_class # "None"
          THEN LET k == IF pc = "returned" THEN "AssertionError" ELSE pending
               IN  IF IsInstance(k, fixture.error_class)
                   THEN "pass"
                   ELSE Escapes(k)
          ELSE IF pc = "except" THEN Escapes(pending)
          ELSE IF Len(results) # fixture.num_cases THEN "fail"
          ELSE IF Output(results) # fixture.output_str THEN "fail"
          ELSE "pass"
    /\ UNCHANGED <<execRaised, job, jobs, results, pending, raised>>
    /\ UNCHANGED <<cfgVars, argVars, genVars, poolVars, execVars, outVars>>

\* ------------------------------------------------------------------ Init
\* The data lines of an input.
DataSeqs == UNION {[1..n -> Bodies] : n \in 0..MaxLines}

\* The inputs: a count line and the data lines.
Texts == {<<CountLine(k)>> \o d : k \in (-1)..MaxExpected, d \in DataSeqs}

NoFixture == [num_cases |-> 0, error_class |-> "None", output_str |-> <<>>]

\* The expected output texts of fixtures: no line, and the lines printed
\* for the cases "a" and "a", "c" by a one-line-per-case driver.
OutputTexts ==
    {Output([i \in 1..n |-> solve(i, <<<<"a">>, <<"c">>>>[i])]) : n \in 0..2}

\* The fixtures: one that expects a failure kind, or one that expects an
\* output text and a number of cases.
Fixtures ==
    {[num_cases |-> 0, error_class |-> e, output_str |-> <<>>] :
        e \in ErrorClasses}
    \cup
    {[num_cases |-> n, error_class |-> "None", output_str |-> o] :
        n \in 0..MaxExpected, o \in OutputTexts}

InitCommon ==
    /\ lines_per_case \in 1..MaxLinesPerCase
    /\ text \in Texts
    /\ gen = "unstarted"
    /\ pos = 0
    /\ expected = 0
    /\ ctr = 0
    /\ nxt = <<>>
    /\ yielded = <<>>
    /\ genFail = "none"
    /\ job = <<>>
    /\ jobs = <<>>
    /\ tasks = <<>>
    /\ results = <<>>
    /\ taken = 0
    /\ workers = [w \in 1..MaxThreads |-> 0]
    /\ completed = <<>>
    /\ mapError = "none"
    /\ pending = "none"
    /\ pool = "none"
    /\ poolSize = 0
    /\ raised = "none"
    /\ parsedNums = {}
    /\ solvedNums = {}
    /\ calls = <<>>
    /\ argFail = "none"
    /\ outOpen = FALSE
    /\ out = <<>>
    /\ execRaised = "none"
    /\ verdict = "none"

\* The slots of TestData.
Slots == {"test_name", "num_cases", "input_str", "output_str", "error_class"}

\* Main.run called with a command line: any of the three options, with or
\* without an input file.
InitRun ==
    /\ mode = "run"
    /\ source \in {"interactive", "file"}
    /\ threads \in 0..MaxThreads
    /\ argTest \in BOOLEAN
    /\ argProfile \in BOOLEAN
    /\ fixture = NoFixture
    /\ slots = {}
    /\ driverHasExecuteAll = FALSE
    /\ pc = "args"

\* A DriverTestCase built from a driver and a fixture.
InitTest ==
    /\ mode = "test"
    /\ source = "fixture"
    /\ threads = 1
    /\ argTest = TRUE
    /\ argProfile = FALSE
    /\ fixture \in Fixtures
    /\ slots = Slots
    /\ driverHasExecuteAll \in BOOLEAN
    /\ pc = "start"

\* TestData called with a test name, a number of cases, an input text and
\* an expected value.
InitConstruct ==
    /\ mode = "test"
    /\ source = "fixture"
    /\ threads = 1
    /\ argTest = TRUE
    /\ argProfile = FALSE
    /\ fixture = NoFixture
    /\ slots = {}
    /\ driverHasExecuteAll = FALSE
    /\ pc = "construct"

Init ==
    /\ InitCommon
    /\ InitRun \/ InitTest \/ InitConstruct

Next ==
    \/ ParseArguments
    \/ RunTests
    \/ RunProfile
    \/ ConstructTestData
    \/ RunStart
    \/ GenStart
    \/ GenLine
    \/ GenExhausted
    \/ SerialExecute
    \/ CreatePool
    \/ \E w \in 1..MaxThreads : WorkerTake(w)
    \/ \E w \in 1..MaxThreads : WorkerFinish(w)
    \/ MapReturn
    \/ MapRaise
    \/ PoolClose
    \/ PoolJoin
    \/ ThreadedExit
    \/ OpenOutfile
    \/ PrintResult
    \/ RunDone
    \/ TestStart
    \/ TestVerdict

Spec == Init /\ [][Next]_vars

\* ---------------------------------------------------------------- claims
\* The executor Main.run called has returned its result list.
ExecutorReturned == mode = "run" /\ pc \in {"returned", "print", "done"}

\* This step is an iteration of test_case_iter's loop over the line
\* CurLine.
LineRead == gen = "running" /\ pos' = pos + 1
CurLine == seq[pos + 1]

\* C1: whatever the order in which the workers complete and whatever the
\* pool size, the list execute_threaded returns is, element for element,
\* the list execute_serially returns for the same cases: the i-th result
\* is the result of the i-th case.
C1_ThreadedMatchesSerial ==
    ExecutorReturned => results = execute_serially(EnumeratedCases)

\* execute_threaded has returned two results or more, the first task
\* completed not being the first case.
C1_Witness ==
    /\ ExecutorReturned
    /\ Strategy = "threaded"
    /\ Len(results) >= 2
    /\ completed[1] # 1

\* C2: with a declared count k >= 0 test_case_iter never yields more than
\* k cases, and a non-blank line arriving when k complete cases have been
\* assembled raises "Too many inputs" at that line, the line neither
\* accumulated nor a case yielded.
C2_NeverMoreThanDeclared ==
    /\ [](gen # "unstarted" /\ expected >= 0 => Len(yielded) <= expected)
    /\ [][(LineRead /\ expected >= 0 /\ CasesSoFar >= expected
                /\ ~IsBlank(CurLine))
            => (/\ gen' = "raised"
                /\ genFail' = "Too many inputs"
                /\ ctr' = ctr
                /\ nxt' = nxt
                /\ yielded' = yielded)]_vars

\* "Too many inputs" was raised with the declared k >= 1 cases yielded.
C2_Witness ==
    /\ genFail = "Too many inputs"
    /\ expected >= 1
    /\ Len(yielded) = expected

\* C3: with a declared count k >= 0 and whatever the input source, a blank
\* line reaching test_case_iter stops the production of cases, and "Too
\* few inputs" is raised exactly when the complete cases assembled so far
\* differ from k.
C3_BlankLineEndsStream ==
    [][(LineRead /\ expected >= 0 /\ IsBlank(CurLine))
        => (/\ yielded' = yielded
            /\ gen' \in {"ended", "raised"}
            /\ (genFail' = "Too few inputs") <=> (CasesSoFar # expected))]_vars

\* C4: with a declared count k >= 0, test_case_iter does not end normally
\* with fewer than k complete cases assembled: exhaustion of the lines
\* raises "Too few inputs" as a blank line does.
C4_ExhaustionChecksCount ==
    ~(gen = "ended" /\ expected >= 0 /\ CasesSoFar < expected)

\* C5: with a negative declared count no count failure is ever raised, a
\* case is yielded exactly at each completed group of lines before the
\* first blank line, and the first blank line ends the stream with nothing
\* yielded.
C5_UnlimitedStopsAtBlank ==
    /\ [](gen # "unstarted" /\ expected < 0
            => genFail \notin {"Too many inputs", "Too few inputs"})
    /\ [][(LineRead /\ expected < 0)
            => IF IsBlank(CurLine)
               THEN yielded' = yielded /\ gen' = "ended"
               ELSE /\ ctr' = ctr + 1
                    /\ (Len(yielded') = Len(yielded) + 1)
                         <=> (ctr' % lines_per_case = 0)
                    /\ Len(yielded') \in {Len(yielded), Len(yielded) + 1}]_vars

\* C6: with lines_per_case = m > 1 every yielded case is the list of m
\* consecutive data lines, and a stream that ends without failure has
\* consumed a multiple of m data lines.
C6_GroupsAreComplete ==
    lines_per_case > 1 =>
        /\ \A j \in 1..Len(yielded) :
              yielded[j] = [i \in 1..lines_per_case |->
                              Strip(seq[1 + (j - 1) * lines_per_case + i])]
        /\ gen = "ended" => ctr % lines_per_case = 0

\* C7: a fixture that declares the failure kind E passes exactly when
\* running the pipeline over its cases raised a failure of kind E; a run
\* in which every case succeeded, or one that raised another kind, does
\* not pass.
C7_PassesIffExpectedFailure ==
    (mode = "test" /\ fixture.error_class # "None" /\ pc = "verdict")
        => ((verdict = "pass")
              <=> (/\ execRaised # "none"
                   /\ IsInstance(execRaised, fixture.error_class)))

\* execute_all has returned its results to _run.
Replayed == gen = "ended" /\ pending = "none"

\* C8: a fixture that declares an output text is replayed through the
\* segmenter and the serial strategy, and passes exactly when the number
\* of results is the fixture's case count and the text print_result
\* writes for them is the fixture's output text.
C8_PassesIffOutputMatches ==
    (mode = "test" /\ fixture.error_class = "None" /\ pc = "verdict")
        => /\ gen # "unstarted"
           /\ (verdict = "pass")
                <=> (/\ Replayed
                     /\ Len(results) = fixture.num_cases
                     /\ Output(results) = fixture.output_str)

\* C9: once its pool exists, execute_threaded neither returns nor raises
\* before the pool is closed and joined; a failure reaches the caller only
\* with the pool joined.
C9_PoolJoinedBeforeExit ==
    (/\ pool # "none"
     /\ \/ pc \in {"returned", "raised", "print", "done"}
        \/ raised # "none")
        => pool = "joined"

\* execute_threaded has raised the failure of a case, the pool joined.
C9_Witness ==
    /\ raised # "none"
    /\ mapError # "none"
    /\ Len(completed) >= 2
    /\ pool = "joined"

\* Main.run executes the cases with execute_serially.
SerialRun ==
    mode = "run" /\ Strategy = "serial" /\ ~argTest /\ ~argProfile

\* C10: execute_serially executes the cases one at a time in stream order;
\* a failure of parse or solve on case i reaches the caller unchanged, no
\* list is returned, no case after i is parsed or solved and no further
\* line is taken from the stream.
C10_SerialFailureAborts ==
    /\ [](SerialRun =>
            /\ parsedNums = 1..Cardinality(parsedNums)
            /\ solvedNums \subseteq parsedNums
            /\ Len(yielded) =
                 Cardinality(parsedNums) + (IF pc = "exec" THEN 1 ELSE 0))
    /\ [][(SerialRun /\ pc = "exec" /\ execute(job).kind # "ok")
            => (/\ raised' = execute(job).kind
                /\ pc' = "raised"
                /\ pos' = pos
                /\ results' = results)]_vars
    /\ [](SerialRun /\ pc = "raised" /\ genFail = "none" /\ argFail = "none" =>
            /\ parsedNums = 1..job[1]
            /\ pos = 1 + job[1] * lines_per_case
            /\ Len(results) = job[1] - 1
            /\ ~outOpen)
    /\ [][~(SerialRun /\ pc = "raised")]_vars

\* execute_serially has raised the failure of a case after a result, with
\* lines of the input left unread.
C10_Witness ==
    /\ SerialRun
    /\ pc = "raised"
    /\ raised \in {"ValueError", "Exception"}
    /\ Len(results) >= 1
    /\ pos < Len(seq)

\* Main.run has ended, by returning or by a failure that left it.
RunEnded == mode = "run" /\ pc \in {"done", "tests", "raised"}

\* The calls of parse_input and of solve made with case number n.
CallsWith(kind, n) ==
    {k \in 1..Len(calls) : calls[k][1] = kind /\ calls[k][2] = n}

\* C11: a run of Main.run that executes cases, be it serial, with workers
\* or with profiling enabled, and completes without failure has written one
\* line per executed case, in case order, the line print_result formats
\* from the case number parse_input and solve were called with and the
\* result; a run with profiling enabled is such a run, it executes the
\* cases of its input.
C11_OneLinePerExecutedCase ==
    /\ (mode = "run" /\ pc = "done") =>
          /\ Len(out) = Len(yielded)
          /\ \A n \in 1..Len(out) :
                /\ out[n] = print_result(n, results[n])
                /\ CallsWith("parse", n) # {}
                /\ CallsWith("solve", n) # {}
    /\ (RunEnded /\ argProfile /\ argFail = "none") => gen # "unstarted"

\* C12: outside test mode, with no input file and a thread count other
\* than 1 or profiling enabled, Main.run fails on its arguments: the failure
\* is raised by parse_arguments, before a line of input is read and before
\* any case is parsed or solved.  And the arguments parse_arguments accepts
\* never select two of test mode, profiling and a thread count.
C12_ConfigurationFailureFirst ==
    /\ (/\ mode = "run"
        /\ ~argTest
        /\ source = "interactive"
        /\ threads # 1 \/ argProfile)
         => /\ pc \in {"args", "raised"}
            /\ pc = "raised" =>
                 /\ argFail # "none"
                 /\ raised \in {"AssertionError", "SystemExit"}
            /\ gen = "unstarted"
            /\ pos = 0
            /\ calls = <<>>
            /\ parsedNums = {}
            /\ solvedNums = {}
    /\ (mode = "run" /\ pc # "args" /\ argFail = "none")
         => /\ ~(argTest /\ argProfile)
            /\ ~(argTest /\ threads # 1)
            /\ ~(argProfile /\ threads # 1)

\* Main.run asked for workers at the interactive prompt has failed on its
\* arguments.
C12_Witness ==
    /\ mode = "run"
    /\ source = "interactive"
    /\ threads > 1
    /\ pc = "raised"
    /\ raised = "AssertionError"
    /\ argFail = "Multithreading not allowed with interactive input"

\* C13: at the interactive prompt each case is processed as soon as it is
\* entered and its output printed: when a line of input is read, the result
\* line of every case completed before it has been written.
C13_PrintedBeforeNextLine ==
    [][(mode = "run" /\ source = "interactive" /\ LineRead)
         => Len(out) = Len(yielded)]_vars

\* The failures test_case_iter raises on the number of cases.
CountFailures == {"Too many inputs", "Too few inputs"}

\* C14 as stated: in every run of Main.run, serial or with a worker pool,
\* when the segmenter raises a count failure no case of the run has been
\* passed to parse_input or to solve.
C14_CountFailureBeforeDispatch ==
    (mode = "run" /\ genFail \in CountFailures)
        => calls = <<>> /\ parsedNums = {} /\ solvedNums = {}

\* C14 amended: with a worker pool a count failure precedes dispatch: when
\* the segmenter raises it nothing has been submitted to the pool and no
\* case has been passed to parse_input or to solve, then or later.  In a
\* serial run the cases yielded before the failing line have all been
\* passed to parse_input already.
C14_PoolCountFailureBeforeDispatch ==
    /\ (mode = "run" /\ threads > 1 /\ genFail \in CountFailures)
         => /\ tasks = <<>>
            /\ calls = <<>>
            /\ parsedNums = {}
            /\ solvedNums = {}
    /\ (SerialRun /\ genFail \in CountFailures)
         => parsedNums = 1..Len(yielded)

\* A run with workers whose input holds more cases than it declares has
\* ended with the count failure, the jobs before it enumerated.
C14_Witness ==
    /\ mode = "run"
    /\ threads > 1
    /\ genFail = "Too many inputs"
    /\ Len(jobs) >= 1
    /\ pc = "raised"
    /\ raised = "AssertionError"

\* C15: with either strategy, when the executor of Main.run has returned,
\* every case yielded was executed exactly once: parse_input was called
\* once with the number and the raw text of the case, solve once with the
\* same number and the value parse_input returned, and after it; there is
\* no other call.  At any time no case number has been handed to
\* parse_input or to solve twice, and a case whose parse_input failed has
\* not been handed to solve.
C15_EachCaseExecutedOnce ==
    /\ ExecutorReturned =>
         /\ Len(calls) = 2 * Len(yielded)
         /\ \A n \in 1..Len(yielded) :
              \E p, q \in 1..Len(calls) :
                 /\ p < q
                 /\ calls[p] = <<"parse", n, yielded[n]>>
                 /\ calls[q] = <<"solve", n, parse_input(n, yielded[n])>>
                 /\ CallsWith("parse", n) = {p}
                 /\ CallsWith("solve", n) = {q}
    /\ mode = "run" =>
         \A k \in 1..Len(calls) :
            /\ Cardinality(CallsWith(calls[k][1], calls[k][2])) = 1
            /\ calls[k][2] \in 1..Len(yielded)
            /\ (calls[k][1] = "parse" /\ ParseFails(calls[k][2], calls[k][3]))
                 => CallsWith("solve", calls[k][2]) = {}

\* A run with two workers has returned its results, the second case
\* executed before the first.
C15_Witness ==
    /\ ExecutorReturned
    /\ threads = 2
    /\ Len(yielded) = 2
    /\ calls[1] = <<"parse", 2, yielded[2]>>
    /\ calls[3] = <<"parse", 1, yielded[1]>>

\* C16: constructing a TestData always succeeds: the constructor returns a
\* fixture that has its expected output text or its failure kind set, and
\* whose failure-kind field the harness can read.
C16_ConstructionSucceeds ==
    (mode = "test" /\ pc # "construct")
        => /\ raised = "none"
           /\ "error_class" \in slots
           /\ "output_str" \in slots \/ fixture.error_class # "None"

\* The i-th line test_case_iter has accepted as data, as it emits it: a
\* line of a case yielded, or of the group being assembled.
Emitted(i) ==
    LET done == lines_per_case * Len(yielded)
    IN  IF i <= done
        THEN CaseLines(yielded[((i - 1) \div lines_per_case) + 1])
                      [((i - 1) % lines_per_case) + 1]
        ELSE nxt[i - done]

\* e is the line raw with the whitespace at both its ends removed and
\* nothing else.
IsStripOf(e, raw) ==
    \E i, j \in 0..Len(raw) :
        /\ i + j <= Len(raw)
        /\ e = SubSeq(raw, i + 1, Len(raw) - j)
        /\ \A k \in 1..i : raw[k] \in Whitespace
        /\ \A k \in (Len(raw) - j + 1)..Len(raw) : raw[k] \in Whitespace
        /\ e = <<>> \/ (e[1] \notin Whitespace /\ e[Len(e)] \notin Whitespace)

\* C17 as stated: each data line accepted is emitted with its trailing
\* whitespace removed and nothing else, its leading whitespace kept, and
\* the decision that the line is not blank is made on the text emitted, so
\* no emitted line is empty.
C17_TrailingWhitespaceOnly ==
    \A i \in 1..ctr :
        /\ Emitted(i) = RStrip(seq[1 + i])
        /\ Emitted(i) # <<>>

\* C17 amended: each data line accepted is emitted with the whitespace at
\* both its ends removed, the characters between kept; the decision is made
\* on the line as read, before it is stripped: a line that is not the empty
\* string is accepted (or refused as one too many) and the empty string
\* ends the stream.
C17_StrippedAtBothEnds ==
    /\ [](\A i \in 1..ctr : IsStripOf(Emitted(i), seq[1 + i]))
    /\ [][LineRead =>
            IF CurLine # <<>>
            THEN (ctr' = ctr + 1 /\ gen' = "running")
                   \/ (ctr' = ctr /\ genFail' = "Too many inputs")
            ELSE ctr' = ctr /\ gen' # "running"]_vars

\* A line of a file with whitespace before its text has been emitted
\* without it, and a line of whitespace only has been emitted empty.
C17_Witness ==
    /\ source = "file"
    /\ ctr = 2
    /\ \E i, j \in 1..ctr :
          /\ seq[1 + i] = <<" ", "a", NL>>
          /\ Emitted(i) = <<"a">>
          /\ seq[1 + j] = <<" ", NL>>
          /\ Emitted(j) = <<>>

\* Main.run neither in test mode nor with profiling enabled.
NormalRun == mode = "run" /\ ~argTest /\ ~argProfile

C19_OrderPreservingSinglePass ==
    /\ Len(yielded) = ctr \div lines_per_case
    /\ gen # "unstarted" => ctr <= pos - 1
    /\ \A n \in 1..Len(yielded) :
          CaseLines(yielded[n]) =
              [k \in 1..lines_per_case |->
                  Strip(seq[1 + (n - 1) * lines_per_case + k])]
    /\ \A n \in 1..Len(jobs) : jobs[n] = <<n, yielded[n]>>
    /\ pc = "exec" => job = <<Len(yielded), yielded[Len(yielded)]>>
    /\ \A k \in 1..Len(calls) :
          calls[k][1] = "parse" =>
              /\ calls[k][2] \in 1..Len(yielded)
              /\ calls[k][3] = yielded[calls[k][2]]

\* With two lines per case, a case was yielded and executed under the
\* number 1 and a third line is held in a group that is not complete.
C19_Witness ==
    /\ lines_per_case = 2
    /\ ctr = 3
    /\ Len(yielded) = 1
    /\ Len(nxt) = 1
    /\ calls # <<>>
    /\ calls[1] = <<"parse", 1, yielded[1]>>

====
